---- MODULE Spec2Model ----
(***************************************************************************)
(* DeepFM (src/CTR Prediction/DeepFM/deepfm.py).                           *)
(*                                                                         *)
(* Two specifications:                                                     *)
(*   Spec     the construction of a DeepFM object: DeepFM.__init__ and     *)
(*            DeepFM._init_graph, statement group by statement group.      *)
(*            Graph nodes are symbolic (TensorFlow builds them, it does    *)
(*            not evaluate them).  A Python exception ends construction.   *)
(*   SpecFwd  the values the graph of _init_graph computes for one sample, *)
(*            stage by stage, on bounded integer inputs.                   *)
(*                                                                         *)
(* Names the source reads but never binds are bindings of the environment: *)
(* the module globals deep_layers and dropout_deep (lines 36-37), the      *)
(* helper methods _initialize_weights/_init_session (written nested inside *)
(* _init_graph, lines 156-175) and the attribute tf.multiple (line 83).    *)
(* Each is either unbound, and the read raises, or bound, and construction *)
(* goes on.  self.log_loss (line 121) and self.optimizer (line 133) are    *)
(* attributes of the object itself: they exist only once this code has     *)
(* assigned them.  Line 165 is not well-formed Python and the file ends    *)
(* inside _initialize_weights (line 175); the model reads the file         *)
(* statement by statement.                                                 *)
(***************************************************************************)
EXTENDS Integers, Sequences, FiniteSets, TLC

\* ------------------------------------------------------------------ bounds
MaxLayers == 2       \* longest deep_layers sequence explored
MaxDropLen == 3      \* longest dropout keep-probability sequence explored
MaxFields == 2       \* largest field_size F explored by SpecFwd

\* --------------------------------------------------------------- variables
VARIABLES
  \* arguments of DeepFM.__init__ (lines 9-27)
  use_fm, use_deep, loss_type, optimizer, l2_reg, dropout_fm,
  \* bindings of the environment
  g_deep_layers,     \* module global deep_layers: Unbound or a sequence of widths
  g_dropout_deep,    \* module global dropout_deep: Unbound or a sequence
  has_helpers,       \* self._initialize_weights / self._init_session resolve
  tf_has_multiple,   \* tf.multiple resolves
  \* the object under construction
  self,              \* attribute name -> value, only the attributes assigned so far
  pc,                \* next statement group
  li,                \* loop index i of the loops at lines 103 and 128
  outcome,           \* "running", "ok" or the exception that ended construction
  \* forward values (SpecFwd)
  fpc,               \* next stage of the forward pass
  field_size, feat_index, feat_value,      \* F and the sample fed (one row)
  feature_embeddings, feature_bias,        \* weights read by the FM terms
  keep,              \* what the dropout stages do in this pass
  wA, wB,            \* deep-layer weights of the two runs compared
  proj,              \* concat_projection / concat_bias
  embeddings, y_first_order, summed_features_emb_square,
  squared_sum_features_emb, y_second_order, y_deepA, y_deepB, outA, outB

cvars == <<use_fm, use_deep, loss_type, optimizer, l2_reg, dropout_fm,
           g_deep_layers, g_dropout_deep, has_helpers, tf_has_multiple,
           self, pc, li, outcome>>
fvars == <<fpc, field_size, feat_index, feat_value, feature_embeddings,
           feature_bias, keep, wA, wB, proj, embeddings, y_first_order,
           summed_features_emb_square, squared_sum_features_emb,
           y_second_order, y_deepA, y_deepB, outA, outB>>
vars == <<cvars, fvars>>

\* ================================================================ Spec ====
\* A name of the environment: unbound, or bound to a value.
Unbound == [bound |-> FALSE, value |-> << >>]
Bound(v) == [bound |-> TRUE, value |-> v]

LossTypes == {"logloss", "mse", "hinge"}
KnownOptimizers == {"adam", "adagrad", "gd", "momentum", "yellowfin"}
OptimizerKinds == KnownOptimizers \cup {"rmsprop"}
L2Values == {-1, 0, 1}          \* l2_reg: only its sign is read (line 125)

\* Sequences of length 0..n over S.
SeqsUpTo(S, n) == UNION {[1..k -> S] : k \in 0..n}

\* deep_layers: hidden widths (every width 2 here; Spec reads only the length).
DeepLayerChoices == SeqsUpTo({2}, MaxLayers)
\* dropout keep-probability sequences (every entry 1.0; Spec reads only the length).
DropoutChoices == SeqsUpTo({1}, MaxDropLen) \ {<< >>}

\* ---- the object: attribute reads and writes
HasAttr(s, name) == name \in DOMAIN s
SetAttr(s, name, v) ==
  [a \in DOMAIN s \cup {name} |-> IF a = name THEN v ELSE s[a]]

\* ---- an exception ends construction
Raise(exc) ==
  /\ outcome' = exc
  /\ pc' = "done"

Goto(next) ==
  /\ pc' = next
  /\ outcome' = outcome

Args == <<use_fm, use_deep, loss_type, optimizer, l2_reg, dropout_fm,
          g_deep_layers, g_dropout_deep, has_helpers, tf_has_multiple>>

\* ---- line 28: assert (use_fm or use_deep)
\* mutant: the assertion of line 28 lets every configuration through.
BranchEnabledAlways(fm, deep) == fm \/ deep \/ TRUE

BranchEnabled(fm, deep) == fm \/ deep

AssertBranch ==
  /\ pc = "assert_branch"
  /\ IF BranchEnabled(use_fm, use_deep)
       THEN Goto("assert_loss")
       ELSE Raise("AssertionError")
  /\ UNCHANGED <<Args, self, li, fvars>>

\* ---- lines 29-30: assert loss_type in ["logloss","mse"]
\* mutant: the assertion of line 29 checks only that loss_type is a known name.
LossTypeValidLax(lt) == lt \in LossTypes

LossTypeValid(lt) == lt \in {"logloss", "mse"}

AssertLossType ==
  /\ pc = "assert_loss"
  /\ IF LossTypeValid(loss_type)
       THEN Goto("store_config")
       ELSE Raise("AssertionError")
  /\ UNCHANGED <<Args, self, li, fvars>>

\* ---- lines 31-56: the attribute assignments.  Lines 36 and 37 read the
\* names deep_layers and dropout_deep, which are no parameters of __init__:
\* Python resolves them as module globals and raises NameError when unbound.
\* Line 37 stores dropout_deep under the attribute name dropout_dep.
StoreConfig ==
  /\ pc = "store_config"
  /\ IF ~g_deep_layers.bound \/ ~g_dropout_deep.bound
       THEN /\ Raise("NameError")
            /\ self' = SetAttr(self, "dropout_fm", dropout_fm)
       ELSE /\ Goto("init_graph")
            /\ self' = [dropout_fm |-> dropout_fm,
                        deep_layers |-> g_deep_layers.value,
                        dropout_dep |-> g_dropout_deep.value,
                        use_fm |-> use_fm,
                        use_deep |-> use_deep,
                        l2_reg |-> l2_reg,
                        optimizer_type |-> optimizer,
                        loss_type |-> loss_type]
  /\ UNCHANGED <<Args, li, fvars>>

\* ---- lines 58, 62-72: _init_graph is entered: the graph and its placeholders.
\* The two dropout placeholders have shape [None]: their length is whatever
\* is fed at run time, and nothing here reads self.dropout_fm or
\* self.dropout_dep.
Placeholder(name, shape) == [placeholder |-> name, shape |-> shape]

InitGraph ==
  /\ pc = "init_graph"
  /\ self' = [a \in DOMAIN self \cup {"graph", "feat_index", "feat_value", "label",
                                      "dropout_keep_fm", "dropout_keep_deep",
                                      "train_phase"} |->
               CASE a = "graph" -> "tf.Graph"
                 [] a = "feat_index" -> Placeholder(a, <<"None", "None">>)
                 [] a = "feat_value" -> Placeholder(a, <<"None", "None">>)
                 [] a = "label" -> Placeholder(a, <<"None", "1">>)
                 [] a = "dropout_keep_fm" -> Placeholder(a, <<"None">>)
                 [] a = "dropout_keep_deep" -> Placeholder(a, <<"None">>)
                 [] a = "train_phase" -> Placeholder(a, << >>)
                 [] OTHER -> self[a]]
  /\ Goto("weights")
  /\ UNCHANGED <<Args, li, fvars>>

\* ---- line 74 and _initialize_weights (lines 161-175)
LayerKey(i) == "layer_" \o ToString(i)
BiasKey(i) == "bias_" \o ToString(i)

\* lines 164-165, 170-171, 173-175: the keys the visible part assigns.
VisibleWeightKeys(n) ==
  {"feature_embeddings", "feature_bias", BiasKey(0)} \cup {LayerKey(i) : i \in 0..(n - 1)}

\* The source file stops inside the loop of line 173: the remaining keys are
\* those the Parameter Store of the specification lists.
RemainingWeightKeys(n) ==
  {BiasKey(i) : i \in 1..(n - 1)} \cup {"concat_projection", "concat_bias"}

\* The helpers are written inside _init_graph, after the statements that call
\* them through self: the call resolves only if the environment binds them
\* as methods.  Line 169 reads deep_layers[0].
InitializeWeights ==
  /\ pc = "weights"
  /\ IF ~has_helpers
       THEN Raise("AttributeError") /\ self' = self
       ELSE IF Len(self.deep_layers) = 0
         THEN Raise("IndexError") /\ self' = self
         ELSE /\ Goto("embeddings")
              /\ self' = SetAttr(self, "weights",
                                 VisibleWeightKeys(Len(self.deep_layers))
                                   \cup RemainingWeightKeys(Len(self.deep_layers)))
  /\ UNCHANGED <<Args, li, fvars>>

\* ---- graph nodes: op is the TensorFlow operation; layer and bias are the
\* numbers i of the weights "layer_%d" % i and "bias_%d" % i it reads; keep is
\* the index into the dropout placeholder it reads; axis is the reduced axis
\* (-1 where the operation has none).
Node(op, layer, bias, kp, axis) ==
  [op |-> op, layer |-> layer, bias |-> bias, keep |-> kp, axis |-> axis]
Op(op) == Node(op, -1, -1, -1, -1)
DropoutNode(k) == Node("dropout", -1, -1, k, -1)
ReduceSum(axis) == Node("reduce_sum", -1, -1, -1, axis)

\* lines 77-79
Embeddings ==
  /\ pc = "embeddings"
  /\ self' = SetAttr(self, "embeddings",
                     <<Op("embedding_lookup feature_embeddings"), Op("multiply feat_value")>>)
  /\ Goto("first_order")
  /\ UNCHANGED <<Args, li, fvars>>

\* lines 82-84.  Line 83 reads tf.multiple.
FirstOrderAxis == 2

FirstOrder ==
  /\ pc = "first_order"
  /\ IF ~tf_has_multiple
       THEN /\ Raise("AttributeError")
            /\ self' = SetAttr(self, "y_first_order",
                               <<Op("embedding_lookup feature_bias")>>)
       ELSE /\ Goto("second_order")
            /\ self' = SetAttr(self, "y_first_order",
                               <<Op("embedding_lookup feature_bias"),
                                 Op("multiple feat_value"),
                                 ReduceSum(FirstOrderAxis),
                                 DropoutNode(0)>>)
  /\ UNCHANGED <<Args, li, fvars>>

\* lines 88-97
SecondOrder ==
  /\ pc = "second_order"
  /\ self' = SetAttr(self, "y_second_order",
                     <<Op("0.5*(square(reduce_sum 1) - reduce_sum 1(square))"),
                       DropoutNode(1)>>)
  /\ Goto("deep_input")
  /\ UNCHANGED <<Args, li, fvars>>

\* lines 100-101: the flattened embeddings, then dropout with entry 0.
DeepInputNodes == <<Op("reshape"), DropoutNode(0)>>

DeepInput ==
  /\ pc = "deep_input"
  /\ self' = SetAttr(self, "y_deep", DeepInputNodes)
  /\ li' = 0
  /\ Goto("deep_loop")
  /\ UNCHANGED <<Args, fvars>>

\* mutant: the dropout after layer i reads entry i, not 1 + i.
DeepLayerNodesSameIndex(i) ==
  <<Node("matmul_add", i, i, -1, -1), Op("activation"), DropoutNode(i)>>

\* lines 104-106: one pass of the loop over the layers, for index i.
DeepLayerNodes(i) ==
  <<Node("matmul_add", i, i, -1, -1), Op("activation"), DropoutNode(1 + i)>>

\* line 103: for i in range(0, len(self.deep_layers))
DeepLoop ==
  /\ pc = "deep_loop"
  /\ IF li < Len(self.deep_layers)
       THEN /\ self' = SetAttr(self, "y_deep", self.y_deep \o DeepLayerNodes(li))
            /\ li' = li + 1
            /\ Goto("deep_loop")
       ELSE /\ self' = self
            /\ li' = 0
            /\ Goto("combine")
  /\ UNCHANGED <<Args, fvars>>

\* mutant: the FM-only mode also concatenates the deep output.
ConcatInputAlwaysDeep(fm, deep) ==
  IF fm THEN <<"y_first_order", "y_second_order", "y_deep">>
  ELSE IF deep THEN <<"y_deep">>
  ELSE << >>

\* ---- lines 109-114: the branches that enter the projection, in order;
\* none when neither flag is set (concat_input is then never assigned).
ConcatInput(fm, deep) ==
  IF fm /\ deep THEN <<"y_first_order", "y_second_order", "y_deep">>
  ELSE IF fm THEN <<"y_first_order", "y_second_order">>
  ELSE IF deep THEN <<"y_deep">>
  ELSE << >>

\* lines 109-115
Combine ==
  /\ pc = "combine"
  /\ IF ConcatInput(self.use_fm, self.use_deep) = << >>
       THEN Raise("UnboundLocalError") /\ self' = self
       ELSE /\ Goto("loss")
            /\ self' = SetAttr(self, "out",
                               [input |-> ConcatInput(self.use_fm, self.use_deep),
                                sigmoid |-> FALSE])
  /\ UNCHANGED <<Args, li, fvars>>

\* ---- lines 118-122.  The first test reads self.loss_type; the second reads
\* self.log_loss.
LossAttrOfMseTest == "log_loss"

Loss ==
  /\ pc = "loss"
  /\ IF self.loss_type = "logloss"
       THEN /\ Goto("l2")
            /\ self' = SetAttr(SetAttr(self, "out", [self.out EXCEPT !.sigmoid = TRUE]),
                               "loss", [kind |-> "log_loss", penalties |-> << >>])
       ELSE IF ~HasAttr(self, LossAttrOfMseTest)
         THEN Raise("AttributeError") /\ self' = self
         ELSE IF self[LossAttrOfMseTest] = "mse"
           THEN /\ Goto("l2")
                /\ self' = SetAttr(self, "loss", [kind |-> "l2_loss", penalties |-> << >>])
           ELSE Goto("l2") /\ self' = self
  /\ UNCHANGED <<Args, li, fvars>>

\* mutant: the penalty on concat_projection sits under the use_deep test.
L2PenaltiesUnderDeep(l2, deep, n) ==
  IF l2 > 0 /\ deep
    THEN <<"concat_projection">> \o [i \in 1..n |-> LayerKey(i - 1)]
    ELSE << >>

\* ---- lines 125-129: the weights whose L2 penalty is added, in order.
L2Penalties(l2, deep, n) ==
  IF l2 > 0
    THEN <<"concat_projection">> \o
         (IF deep THEN [i \in 1..n |-> LayerKey(i - 1)] ELSE << >>)
    ELSE << >>

L2Reg ==
  /\ pc = "l2"
  /\ IF L2Penalties(self.l2_reg, self.use_deep, Len(self.deep_layers)) = << >>
       THEN Goto("optimizer") /\ self' = self
       ELSE IF ~HasAttr(self, "loss")
         THEN Raise("AttributeError") /\ self' = self
         ELSE /\ Goto("optimizer")
              /\ self' = SetAttr(self, "loss",
                   [self.loss EXCEPT !.penalties =
                      L2Penalties(self.l2_reg, self.use_deep, Len(self.deep_layers))])
  /\ UNCHANGED <<Args, li, fvars>>

\* ---- lines 131-140.  The tests of lines 131 and 139 read
\* self.optimizer_type; those of lines 133, 135 and 137 read self.optimizer,
\* which only the branches themselves assign.  YFOptimizer (line 140) is a
\* name the module never binds.
OptimizerOf(s) ==
  IF s.optimizer_type = "adam" THEN "AdamOptimizer"
  ELSE IF ~HasAttr(s, "optimizer") THEN "raise AttributeError"
  ELSE IF s.optimizer = "adagrad" THEN "AdagradOptimizer"
  ELSE IF s.optimizer = "gd" THEN "GradientDescentOptimizer"
  ELSE IF s.optimizer = "momentum" THEN "MomentumOptimizer"
  ELSE IF s.optimizer_type = "yellowfin" THEN "raise NameError"
  ELSE "none"

Optimizer ==
  /\ pc = "optimizer"
  /\ IF OptimizerOf(self) = "raise AttributeError"
       THEN Raise("AttributeError") /\ self' = self
       ELSE IF OptimizerOf(self) = "raise NameError"
         THEN Raise("NameError") /\ self' = self
         ELSE IF OptimizerOf(self) = "none"
           THEN Goto("session") /\ self' = self
           ELSE /\ Goto("session")
                /\ self' = SetAttr(self, "optimizer", OptimizerOf(self))
  /\ UNCHANGED <<Args, li, fvars>>

\* ---- lines 142-155: saver, session, parameter count; construction returns.
Session ==
  /\ pc = "session"
  /\ self' = SetAttr(SetAttr(self, "saver", "tf.train.Saver"), "sess", "tf.Session")
  /\ pc' = "done"
  /\ outcome' = "ok"
  /\ UNCHANGED <<Args, li, fvars>>

\* ============================================== claims checked under Spec ==
ConfigurationError == "AssertionError"
GraphAttrs == {"graph", "weights", "sess", "optimizer", "loss", "out",
               "feat_index", "feat_value", "label"}
NoGraphBuilt == DOMAIN self \cap GraphAttrs = {}
Elems(q) == {q[j] : j \in 1..Len(q)}

\* C1: with use_fm = false and use_deep = false construction fails with a
\* configuration error at its first statement, whatever the other arguments
\* are, and nothing of the graph (graph, placeholders, weights, loss,
\* optimizer, session) ever exists.
C1_NoBranchFailsFirst ==
  (~use_fm /\ ~use_deep) =>
     /\ NoGraphBuilt
     /\ pc \in {"assert_branch", "done"}
     /\ pc = "done" => outcome = ConfigurationError

C1_Witness ==
  /\ ~use_fm /\ ~use_deep
  /\ loss_type = "logloss" /\ optimizer = "adam"
  /\ pc = "done" /\ outcome = ConfigurationError

\* C2: a loss_type outside {"logloss", "mse"} ends construction with a
\* configuration error before _init_graph is entered: no placeholder, weight,
\* loss or optimizer is ever created.
C2_BadLossTypeFailsBeforeGraph ==
  (loss_type \notin {"logloss", "mse"}) =>
     /\ NoGraphBuilt
     /\ pc \in {"assert_branch", "assert_loss", "done"}
     /\ pc = "done" => outcome = ConfigurationError

C2_Witness ==
  /\ loss_type = "hinge" /\ use_fm /\ use_deep
  /\ g_deep_layers.bound /\ g_dropout_deep.bound
  /\ pc = "done" /\ outcome = ConfigurationError

\* C3 (as claimed): once the loss is assembled, an optimizer kind outside
\* adam, adagrad, gd, momentum, yellowfin ends construction in a
\* configuration error.
C3_UnknownOptimizerIsConfigurationError ==
  (pc = "done" /\ optimizer \notin KnownOptimizers /\ HasAttr(self, "loss"))
     => outcome = ConfigurationError

\* C4 (as claimed): no construction succeeds with dropout keep-probability
\* sequences whose lengths disagree with deep_layers (FM sequence of length
\* 2, deep sequence of length len(deep_layers) + 1).
C4_DropoutLengthsChecked ==
  (outcome = "ok") =>
     /\ Len(self.dropout_fm) = 2
     /\ Len(self.dropout_dep) = Len(self.deep_layers) + 1

\* C5 (as claimed): with loss_type = "mse", once the combiner output exists
\* and loss assembly has run, the loss is the squared error on the raw logit
\* (no sigmoid on the output).
C5_MseLossDefined ==
  (loss_type = "mse" /\ HasAttr(self, "out") /\ pc # "loss") =>
     /\ HasAttr(self, "loss")
     /\ self.loss.kind = "l2_loss"
     /\ ~self.out.sigmoid

DeepBuilt == HasAttr(self, "y_deep") /\ pc \notin {"deep_input", "deep_loop"}

\* C9 (as claimed): for each layer i the deep branch holds, in this order and
\* next to each other, the dropout reading entry 1 + i, the affine transform
\* with layer_i and bias_i, and the nonlinearity.
C9_DropoutThenAffineThenActivation ==
  DeepBuilt =>
    \A i \in 0..(Len(self.deep_layers) - 1) :
      \E p \in 1..(Len(self.y_deep) - 2) :
        /\ self.y_deep[p] = DropoutNode(1 + i)
        /\ self.y_deep[p + 1] = Node("matmul_add", i, i, -1, -1)
        /\ self.y_deep[p + 2].op = "activation"

\* C9 (amended): the flattened embeddings get the dropout reading entry 0;
\* then, for each layer i in increasing order, come the affine transform with
\* layer_i and bias_i, the nonlinearity, and the dropout reading entry 1 + i,
\* applied to the output of layer i; nothing else is in the branch.
C9_AffineThenActivationThenDropout ==
  DeepBuilt =>
    /\ Len(self.y_deep) = 2 + 3 * Len(self.deep_layers)
    /\ self.y_deep[1].op = "reshape"
    /\ self.y_deep[2] = DropoutNode(0)
    /\ \A i \in 0..(Len(self.deep_layers) - 1) :
         /\ self.y_deep[3 + 3 * i].op = "matmul_add"
         /\ self.y_deep[3 + 3 * i].layer = i
         /\ self.y_deep[3 + 3 * i].bias = i
         /\ self.y_deep[4 + 3 * i].op = "activation"
         /\ self.y_deep[5 + 3 * i].op = "dropout"
         /\ self.y_deep[5 + 3 * i].keep = 1 + i

C9_Witness ==
  /\ pc = "combine"
  /\ Len(self.deep_layers) >= 2
  /\ HasAttr(self, "y_deep")

L2Done == HasAttr(self, "loss") /\ pc \notin {"loss", "l2"}

\* C10: after loss assembly the penalized weights are: concat_projection if
\* and only if l2_reg > 0; layer_i, for every i below len(deep_layers), if and
\* only if l2_reg > 0 and use_deep; each at most once; and no other weight.
C10_L2PenaltiesExact ==
  L2Done =>
    /\ ("concat_projection" \in Elems(self.loss.penalties)) <=> (l2_reg > 0)
    /\ \A i \in 0..(Len(self.deep_layers) - 1) :
         (LayerKey(i) \in Elems(self.loss.penalties)) <=> (l2_reg > 0 /\ use_deep)
    /\ Elems(self.loss.penalties) \subseteq
         {"concat_projection"} \cup {LayerKey(i) : i \in 0..(Len(self.deep_layers) - 1)}
    /\ Cardinality(Elems(self.loss.penalties)) = Len(self.loss.penalties)
    /\ l2_reg <= 0 => self.loss.penalties = << >>

C10_Witness ==
  /\ L2Done
  /\ l2_reg > 0 /\ use_fm /\ ~use_deep
  /\ Len(self.deep_layers) >= 2
  /\ self.loss.penalties = <<"concat_projection">>

\* ============================================================= SpecFwd ==
\* The values of the graph for one sample (one row of the batch).  Reals are
\* integers here; a keep-probability is 1/q for an integer q.

EmbeddingSize == 2                  \* K explored
FeatureIds == {0, 1}                \* feature indices, [0, M)
FieldValues == {1, 2}               \* feat_value entries
EmbeddingRows == {[k \in 1..EmbeddingSize |-> c * k - 3] : c \in {1, 2}}
BiasValues == {-3, 1}               \* feature_bias entries
\* deep weights: every entry of layer_i is w, every entry of bias_i is b
DeepWeightChoices == {[w |-> -1, b |-> 0], [w |-> 2, b |-> 0], [w |-> 2, b |-> 1]}
\* every entry of concat_projection is w; concat_bias is b
ProjectionChoices == [w : {1, -2}, b : {3}]   \* every entry of concat_projection is w
DeepWidth == 2                      \* width of every deep layer explored

RECURSIVE SumSeq(_)
SumSeq(q) == IF q = << >> THEN 0 ELSE Head(q) + SumSeq(Tail(q))

\* ---- tf.nn.dropout(x, keep_prob) on a vector: a kept entry is divided by
\* keep_prob = 1/q, a dropped one is 0.  parity names the positions dropped
\* (those p with p % 2 = parity); -1 drops none.
NoDropout == [q |-> 1, parity |-> -1]
DropoutModes == {NoDropout, [q |-> 2, parity |-> 0], [q |-> 2, parity |-> 1]}
Dropout(x, d) ==
  [p \in 1..Len(x) |-> IF p % 2 = d.parity THEN 0 ELSE x[p] * d.q]

\* ---- line 77: tf.nn.embedding_lookup(table, feat_index), one row per field
EmbeddingLookup(table, index) == [f \in 1..Len(index) |-> table[index[f]]]

\* ---- lines 78-79: each field's row times the field's value
ScaleByValue(rows, value) ==
  [f \in 1..Len(rows) |-> [k \in 1..Len(rows[f]) |-> rows[f][k] * value[f]]]

\* ---- tf.reduce_sum over the field axis (axis 1) of an F x K tensor: K entries
ReduceSumFields(t, width) ==
  [k \in 1..width |-> SumSeq([f \in 1..Len(t) |-> t[f][k]])]

\* ---- tf.reduce_sum over the last axis (axis 2) of an F x K tensor: F entries
ReduceSumLast(t) == [f \in 1..Len(t) |-> SumSeq(t[f])]

\* ---- lines 82-83: the looked-up feature_bias rows (F x 1) times the field
\* values, reduced over axis 2
FirstOrderTerm(bias, index, value) ==
  ReduceSumLast(ScaleByValue(EmbeddingLookup(bias, index), value))

Square(v) == [k \in 1..Len(v) |-> v[k] * v[k]]

\* mutant: the square is taken before the sum over the fields.
SummedFeaturesEmbSquareEarly(emb, width) ==
  ReduceSumFields([f \in 1..Len(emb) |-> Square(emb[f])], width)

\* ---- lines 88-89: the sum over the fields, squared
SummedFeaturesEmbSquare(emb, width) == Square(ReduceSumFields(emb, width))

\* ---- lines 92-93: the squares, summed over the fields
SquaredSumFeaturesEmb(emb, width) ==
  ReduceSumFields([f \in 1..Len(emb) |-> Square(emb[f])], width)

\* ---- line 96: 0.5 * tf.subtract(a, b).  On integers 0.5 * x is x \div 2,
\* exact when x is even (C6_PairwiseIdentity checks that it is).
HalfOfDifference(a, b) == [k \in 1..Len(a) |-> (a[k] - b[k]) \div 2]

\* ---- line 100: reshape of the F x K embeddings to F*K entries, row-major
Flatten(emb, width) ==
  [p \in 1..(Len(emb) * width) |-> emb[((p - 1) \div width) + 1][((p - 1) % width) + 1]]

\* ---- line 14: the default activation, tf.nn.relu
Relu(v) == [j \in 1..Len(v) |-> IF v[j] > 0 THEN v[j] ELSE 0]

\* ---- line 104: tf.add(tf.matmul(y, layer_i), bias_i)
MatmulAdd(y, wt) == [j \in 1..DeepWidth |-> SumSeq(y) * wt.w + wt.b]

\* ---- lines 101-106: the deep branch over n layers
RECURSIVE DeepLayers(_, _, _, _, _)
DeepLayers(y, wt, d, i, n) ==
  IF i >= n THEN y
  ELSE DeepLayers(Dropout(Relu(MatmulAdd(y, wt)), d), wt, d, i + 1, n)

DeepBranch(emb, width, wt, d, n) ==
  DeepLayers(Dropout(Flatten(emb, width), d), wt, d, 0, n)

\* ---- lines 109-115: tf.concat of the chosen branches along axis 1, then
\* matmul with concat_projection plus concat_bias
ConcatValues(names, first, second, deep) ==
  IF names = << >> THEN << >>
  ELSE (IF "y_first_order" \in Elems(names) THEN first ELSE << >>)
       \o (IF "y_second_order" \in Elems(names) THEN second ELSE << >>)
       \o (IF "y_deep" \in Elems(names) THEN deep ELSE << >>)

Project(v, pr) == SumSeq(v) * pr.w + pr.b

Output(fm, deep, first, second, deepOut, pr) ==
  [concat |-> ConcatValues(ConcatInput(fm, deep), first, second, deepOut),
   logit |-> Project(ConcatValues(ConcatInput(fm, deep), first, second, deepOut), pr)]

\* ---- the stages
FwdCfg == <<use_fm, use_deep, g_deep_layers, keep>>
FwdInputs == <<field_size, feat_index, feat_value, feature_embeddings, feature_bias>>
ConstructIdleVars == <<loss_type, optimizer, l2_reg, dropout_fm, g_dropout_deep,
                       has_helpers, tf_has_multiple, self, pc, li, outcome>>

\* lines 77-79
FwdEmbeddings ==
  /\ fpc = "embeddings"
  /\ embeddings' = ScaleByValue(EmbeddingLookup(feature_embeddings, feat_index), feat_value)
  /\ fpc' = "first_order"
  /\ UNCHANGED <<FwdCfg, FwdInputs, ConstructIdleVars, wA, wB, proj, y_first_order,
                 summed_features_emb_square, squared_sum_features_emb,
                 y_second_order, y_deepA, y_deepB, outA, outB>>

\* lines 82-83
FwdFirstOrder ==
  /\ fpc = "first_order"
  /\ y_first_order' = FirstOrderTerm(feature_bias, feat_index, feat_value)
  /\ fpc' = "first_order_dropout"
  /\ UNCHANGED <<FwdCfg, FwdInputs, ConstructIdleVars, wA, wB, proj, embeddings,
                 summed_features_emb_square, squared_sum_features_emb,
                 y_second_order, y_deepA, y_deepB, outA, outB>>

\* line 84
FwdFirstOrderDropout ==
  /\ fpc = "first_order_dropout"
  /\ y_first_order' = Dropout(y_first_order, keep)
  /\ fpc' = "second_order"
  /\ UNCHANGED <<FwdCfg, FwdInputs, ConstructIdleVars, wA, wB, proj, embeddings,
                 summed_features_emb_square, squared_sum_features_emb,
                 y_second_order, y_deepA, y_deepB, outA, outB>>

\* lines 88-96
FwdSecondOrder ==
  /\ fpc = "second_order"
  /\ summed_features_emb_square' = SummedFeaturesEmbSquare(embeddings, EmbeddingSize)
  /\ squared_sum_features_emb' = SquaredSumFeaturesEmb(embeddings, EmbeddingSize)
  /\ y_second_order' = HalfOfDifference(summed_features_emb_square',
                                        squared_sum_features_emb')
  /\ fpc' = "second_order_dropout"
  /\ UNCHANGED <<FwdCfg, FwdInputs, ConstructIdleVars, wA, wB, proj, embeddings,
                 y_first_order, y_deepA, y_deepB, outA, outB>>

\* line 97
FwdSecondOrderDropout ==
  /\ fpc = "second_order_dropout"
  /\ y_second_order' = Dropout(y_second_order, keep)
  /\ fpc' = "deep"
  /\ UNCHANGED <<FwdCfg, FwdInputs, ConstructIdleVars, wA, wB, proj, embeddings,
                 y_first_order, summed_features_emb_square,
                 squared_sum_features_emb, y_deepA, y_deepB, outA, outB>>

\* lines 100-106, for the deep weights of run A and of run B
FwdDeep ==
  /\ fpc = "deep"
  /\ \E a \in DeepWeightChoices, b \in DeepWeightChoices :
       /\ wA' = a
       /\ wB' = b
       /\ y_deepA' = DeepBranch(embeddings, EmbeddingSize, a, keep, Len(g_deep_layers.value))
       /\ y_deepB' = DeepBranch(embeddings, EmbeddingSize, b, keep, Len(g_deep_layers.value))
  /\ fpc' = "combine"
  /\ UNCHANGED <<FwdCfg, FwdInputs, ConstructIdleVars, proj, embeddings, y_first_order,
                 summed_features_emb_square, squared_sum_features_emb,
                 y_second_order, outA, outB>>

\* lines 109-115, for run A and for run B, same concat_projection and concat_bias
FwdCombine ==
  /\ fpc = "combine"
  /\ \E pr \in ProjectionChoices :
       /\ proj' = pr
       /\ outA' = Output(use_fm, use_deep, y_first_order, y_second_order, y_deepA, pr)
       /\ outB' = Output(use_fm, use_deep, y_first_order, y_second_order, y_deepB, pr)
  /\ fpc' = "done"
  /\ UNCHANGED <<FwdCfg, FwdInputs, ConstructIdleVars, wA, wB, embeddings, y_first_order,
                 summed_features_emb_square, squared_sum_features_emb,
                 y_second_order, y_deepA, y_deepB>>

\* =========================================== claims checked under SpecFwd ==
\* The sum over all field pairs i < j of emb[i][k] * emb[j][k].
PairwiseSum(emb, k) ==
  SumSeq([p \in 1..(Len(emb) * Len(emb)) |->
            IF ((p - 1) \div Len(emb)) < ((p - 1) % Len(emb))
              THEN emb[((p - 1) \div Len(emb)) + 1][k] * emb[((p - 1) % Len(emb)) + 1][k]
              ELSE 0])

\* C6: before its dropout the second-order term equals, in every embedding
\* dimension k, the sum over the field pairs i < j of emb[i][k] * emb[j][k]
\* (the halved difference is exact), and it is zero in every dimension when
\* there is one field.
C6_PairwiseIdentity ==
  (fpc = "second_order_dropout") =>
    /\ Len(y_second_order) = EmbeddingSize
    /\ \A k \in 1..EmbeddingSize :
         /\ (summed_features_emb_square[k] - squared_sum_features_emb[k]) % 2 = 0
         /\ y_second_order[k] = PairwiseSum(embeddings, k)
    /\ field_size = 1 => \A k \in 1..EmbeddingSize : y_second_order[k] = 0

C6_Witness ==
  /\ fpc = "second_order_dropout"
  /\ field_size >= 2
  /\ \E k \in 1..EmbeddingSize : y_second_order[k] < 0
  /\ \E k \in 1..EmbeddingSize : y_second_order[k] > 0

\* C7: with use_fm and without use_deep, two runs on the same sample and the
\* same embedding table, feature bias, projection and dropout, whose deep
\* weights differ, give the same output; the projection's input is the
\* first-order term followed by the second-order term, nothing else.
C7_BranchIsolation ==
  (fpc = "done" /\ use_fm /\ ~use_deep) =>
    /\ outA = outB
    /\ outA.concat = y_first_order \o y_second_order

C7_Witness ==
  /\ fpc = "done" /\ use_fm /\ ~use_deep
  /\ wA # wB
  /\ y_deepA # y_deepB
  /\ SumSeq(y_deepA) # SumSeq(y_deepB)
  /\ proj.w # 0

\* C8 (as claimed): before its dropout the first-order term is one scalar,
\* the sum over the sample's fields of feature_bias[index_f] * value_f.
C8_FirstOrderIsFieldSum ==
  (fpc = "first_order_dropout") =>
    /\ Len(y_first_order) = 1
    /\ y_first_order[1] =
         SumSeq([f \in 1..field_size |-> feature_bias[feat_index[f]][1] * feat_value[f]])

\* ================================================================ Init ==
ConstructInit ==
  /\ use_fm \in BOOLEAN
  /\ use_deep \in BOOLEAN
  /\ loss_type \in LossTypes
  /\ optimizer \in OptimizerKinds
  /\ l2_reg \in L2Values
  /\ dropout_fm \in DropoutChoices
  /\ g_deep_layers \in {Unbound} \cup {Bound(d) : d \in DeepLayerChoices}
  /\ g_dropout_deep \in {Unbound} \cup {Bound(d) : d \in DropoutChoices}
  /\ has_helpers \in BOOLEAN
  /\ tf_has_multiple \in BOOLEAN
  /\ self = << >>
  /\ pc = "assert_branch"
  /\ li = 0
  /\ outcome = "running"

FwdIdle ==
  /\ fpc = "idle"
  /\ field_size = 0
  /\ feat_index = << >>
  /\ feat_value = << >>
  /\ feature_embeddings = << >>
  /\ feature_bias = << >>
  /\ keep = NoDropout
  /\ wA = [w |-> 0, b |-> 0]
  /\ wB = [w |-> 0, b |-> 0]
  /\ proj = [w |-> 0, b |-> 0]
  /\ embeddings = << >>
  /\ y_first_order = << >>
  /\ summed_features_emb_square = << >>
  /\ squared_sum_features_emb = << >>
  /\ y_second_order = << >>
  /\ y_deepA = << >>
  /\ y_deepB = << >>
  /\ outA = [concat |-> << >>, logit |-> 0]
  /\ outB = [concat |-> << >>, logit |-> 0]

Init == ConstructInit /\ FwdIdle

Next ==
  \/ AssertBranch
  \/ AssertLossType
  \/ StoreConfig
  \/ InitGraph
  \/ InitializeWeights
  \/ Embeddings
  \/ FirstOrder
  \/ SecondOrder
  \/ DeepInput
  \/ DeepLoop
  \/ Combine
  \/ Loss
  \/ L2Reg
  \/ Optimizer
  \/ Session

Spec == Init /\ [][Next]_vars
\* A constructed model (its flags and deep_layers) and one sample fed to it.
\* The forward pass reads no attribute of self but the flags: self is left out.
FwdInit ==
  /\ use_fm \in BOOLEAN
  /\ use_deep \in BOOLEAN
  /\ BranchEnabled(use_fm, use_deep)
  /\ g_deep_layers \in {Bound(d) : d \in SeqsUpTo({DeepWidth}, MaxLayers) \ {<< >>}}
  /\ keep \in DropoutModes
  /\ field_size \in 1..MaxFields
  /\ feat_index \in [1..field_size -> FeatureIds]
  /\ feat_value \in [1..field_size -> FieldValues]
  /\ feature_embeddings \in [FeatureIds -> EmbeddingRows]
  /\ feature_bias \in [FeatureIds -> {<<v>> : v \in BiasValues}]
  /\ fpc = "embeddings"
  /\ wA = [w |-> 0, b |-> 0]
  /\ wB = [w |-> 0, b |-> 0]
  /\ proj = [w |-> 0, b |-> 0]
  /\ embeddings = << >>
  /\ y_first_order = << >>
  /\ summed_features_emb_square = << >>
  /\ squared_sum_features_emb = << >>
  /\ y_second_order = << >>
  /\ y_deepA = << >>
  /\ y_deepB = << >>
  /\ outA = [concat |-> << >>, logit |-> 0]
  /\ outB = [concat |-> << >>, logit |-> 0]
  /\ loss_type = "logloss"
  /\ optimizer = "adam"
  /\ l2_reg = 0
  /\ dropout_fm = <<1, 1>>
  /\ g_dropout_deep = Bound([i \in 1..(Len(g_deep_layers.value) + 1) |-> 1])
  /\ has_helpers = TRUE
  /\ tf_has_multiple = TRUE
  /\ self = << >>
  /\ pc = "done"
  /\ li = 0
  /\ outcome = "ok"

NextFwd ==
  \/ FwdEmbeddings
  \/ FwdFirstOrder
  \/ FwdFirstOrderDropout
  \/ FwdSecondOrder
  \/ FwdSecondOrderDropout
  \/ FwdDeep
  \/ FwdCombine

SpecFwd == FwdInit /\ [][NextFwd]_vars
====
